---- MODULE Spec2Model ----
(***************************************************************************)
(* The client-side API access layer of the Brent oil dashboard             *)
(* (frontend/src/services/api.js): an axios instance with a 30 s timeout,  *)
(* a response interceptor that unwraps the body or normalises the error,   *)
(* a process-wide cache Map with a 5 minute lifetime, and the exported     *)
(* endpoint functions.  Time is the value of Date.now() in milliseconds.   *)
(* Optional JavaScript values (undefined / absent) are sets of at most one *)
(* element: {} is undefined, {v} is the value v.                           *)
(***************************************************************************)
EXTENDS Integers, Sequences, FiniteSets, TLC

VARIABLES
    cache,      \* the Map of api.js:80: cache key -> [data, timestamp]
    inflight,   \* the calls suspended at `await api.get(...)`
    last,       \* what the most recent step did and handed to its caller
    now,        \* Date.now()
    calls,      \* number of endpoint-function calls made so far
    ticks,      \* number of clock advances so far
    okLog,      \* per request, its latest successful completion since the last clearCache
    mustMiss,   \* keys cached at the last clearCache and not requested since
    workload,   \* the endpoint functions the callers of this run use
    requests,   \* the array handed to batchRequests: one promise or value per place
    results,    \* what Promise.allSettled has collected, place by place
    batch,      \* the promise batchRequests returned
    timeline,   \* EventTimeline: its `events` prop and its currentPage state
    dashboard,  \* components/Dashboard: the state of its useState cells
    loads,      \* the loadData invocations suspended at an await
    settled,    \* the loadData invocations that have ended, and how
    app,        \* App: the state of its useState cells
    runs,       \* the fetchData runs suspended at an await
    runCount,   \* number of fetchData runs started so far
    ended       \* the fetchData run that ended last, and what it left

apiVars == <<cache, inflight, last, now, calls, ticks, okLog, mustMiss, workload>>
batchVars == <<requests, results, batch>>
loaderVars == <<dashboard, loads, settled>>
appVars == <<app, runs, runCount, ended>>
uiVars == <<batchVars, timeline, loaderVars, appVars>>
vars == <<apiVars, uiVars>>

----------------------------------------------------------------------------
(* Bounds of the model *)

MaxCalls == 2
MaxTicks == 1

----------------------------------------------------------------------------
(* Program constants *)

timeout == 30000

CACHE_DURATION == 5 * 60 * 1000

----------------------------------------------------------------------------
(* Values *)

\* Response bodies.  kind "object" is a JSON object {success, data, message?},
\* kind "null" is the JSON value null (falsy), kind "blob" is a Blob.
Obj(s, d, m) == [kind |-> "object", success |-> s, data |-> d, message |-> m]

Null == [kind |-> "null", success |-> FALSE, data |-> 0, message |-> {}]

Blob == [kind |-> "blob", success |-> FALSE, data |-> 0, message |-> {}]

\* JavaScript truthiness of a body / of an optional string
Truthy(b) == b.kind # "null"

TruthyOpt(o) == o # {} /\ o # {""}

\* a || b on optional values
Or(a, b) == IF TruthyOpt(a) THEN a ELSE b

\* Bodies a server sends with a 2xx status to a JSON request
OkBodies == {Obj(TRUE, 1, {}), Obj(FALSE, 0, {"failed"}), Null}

\* Statuses outside 200-299 (axios' default validateStatus rejects them)
ErrStatuses == {304, 401, 403, 404, 500, 502, 503}

\* Bodies a server sends with an error status: message present, empty or absent
ErrBodies == {Obj(FALSE, 0, {"not found"}), Obj(FALSE, 0, {""}), Null}

\* The error responses of the runs: every status with a message, and one
\* status with every body
ErrResponses ==
    {[status |-> s, data |-> Obj(FALSE, 0, {"not found"})] : s \in ErrStatuses}
        \cup {[status |-> 404, data |-> b] : b \in ErrBodies}

\* Parameter objects, as the sequence of their entries in insertion order
ParamObjs ==
    { << <<"a", "1">>, <<"b", "2">> >>,
      << <<"b", "2">>, <<"a", "1">> >> }

\* The groups of endpoint functions a run of the callers draws its calls from
Workloads ==
    { {"fetchPrices"},
      {"fetchMetrics", "fetchSummaryMetrics"},
      {"fetchEvents", "exportEvents"},
      {"healthCheck", "fetchDashboardConfig"},
      {"fetchChangePoints", "fetchSeasonality"},
      {"fetchEventImpact", "exportPrices"} }

\* The key/value pairs of a parameter object, whatever their order
Pairs(params) == {params[i] : i \in 1..Len(params)}

----------------------------------------------------------------------------
(* The transport: what axios hands to the response interceptor *)

\* The message axios gives to the error of a response with a rejected status
StatusMessage(s) ==
    CASE s = 304 -> "Request failed with status code 304"
      [] s = 401 -> "Request failed with status code 401"
      [] s = 403 -> "Request failed with status code 403"
      [] s = 404 -> "Request failed with status code 404"
      [] s = 500 -> "Request failed with status code 500"
      [] s = 502 -> "Request failed with status code 502"
      [] s = 503 -> "Request failed with status code 503"

\* A response with a status outside 200-299: the error carries the response
StatusError(s, body) ==
    [response |-> {[status |-> s, data |-> body]},
     code     |-> IF s >= 500 THEN "ERR_BAD_RESPONSE" ELSE "ERR_BAD_REQUEST",
     message  |-> StatusMessage(s)]

\* No response within `timeout` ms: axios aborts the request (code
\* ECONNABORTED, its default for a timeout)
TimeoutError ==
    [response |-> {}, code |-> "ECONNABORTED", message |-> "timeout of 30000ms exceeded"]

\* The request could not reach the server
NetworkError ==
    [response |-> {}, code |-> "ERR_NETWORK", message |-> "Network Error"]

\* Any other failure that carries no response
OtherError ==
    [response |-> {}, code |-> "ERR_BAD_OPTION", message |-> "Unsupported protocol"]

----------------------------------------------------------------------------
(* The axios instance and its request interceptor, api.js:6-32 *)

\* What localStorage.getItem('auth_token') can return: null, '' or a token
Tokens == {{}, {""}, {"t0k3n"}}

\* The headers every request of the instance starts from
DefaultHeaders ==
    [ContentType       |-> {"application/json"},
     Accept            |-> {"application/json"},
     Authorization     |-> {},
     XRequestTimestamp |-> {}]

\* The config of api.get(url, options) before the interceptors
Config(url, blob) ==
    [url |-> url, timeout |-> timeout, headers |-> DefaultHeaders,
     responseType |-> IF blob THEN {"blob"} ELSE {}]

\* RequestFulfilled that sets Authorization whatever getItem returned
RequestFulfilledAlwaysAuth(config, token, t) ==
    [config EXCEPT
        !.headers = [@ EXCEPT
            !.Authorization = {<<"Bearer ", token>>},
            !.XRequestTimestamp = {t}]]

\* request interceptor, success handler: `token` is what getItem returned and
\* t the time of new Date()
RequestFulfilled(config, token, t) ==
    [config EXCEPT
        !.headers = [@ EXCEPT
            !.Authorization = IF TruthyOpt(token)
                              THEN {<<"Bearer ", token>>}
                              ELSE @,
            !.XRequestTimestamp = {t}]]

----------------------------------------------------------------------------
(* The response interceptor, api.js:35-77 *)

\* success handler: the caller gets the body, not the axios response
ResponseFulfilled(response) == response.data

\* Diagnostic with the timeout looked for under another error code
DiagnosticOtherTimeoutCode(error) ==
    IF error.response # {}
    THEN LET response == CHOOSE r \in error.response : TRUE
         IN  CASE response.status = 401 -> {"Unauthorized access"}
               [] response.status = 403 -> {"Forbidden access"}
               [] response.status = 404 -> {"Resource not found"}
               [] response.status = 500 -> {"Internal server error"}
               [] response.status = 503 -> {"Service unavailable"}
               [] OTHER                 -> {"API error:"}
    ELSE IF error.code = "ETIMEDOUT" THEN {"Request timeout"}
    ELSE IF error.code = "ERR_NETWORK" THEN {"Network error"}
    ELSE {}

\* error handler, the console.error it makes
Diagnostic(error) ==
    IF error.response # {}
    THEN LET response == CHOOSE r \in error.response : TRUE
         IN  CASE response.status = 401 -> {"Unauthorized access"}
               [] response.status = 403 -> {"Forbidden access"}
               [] response.status = 404 -> {"Resource not found"}
               [] response.status = 500 -> {"Internal server error"}
               [] response.status = 503 -> {"Service unavailable"}
               [] OTHER                 -> {"API error:"}
    ELSE IF error.code = "ECONNABORTED" THEN {"Request timeout"}
    ELSE IF error.code = "ERR_NETWORK" THEN {"Network error"}
    ELSE {}

\* error.response?.data?.message
ServerMessage(error) ==
    IF error.response = {} THEN {}
    ELSE LET response == CHOOSE r \in error.response : TRUE
         IN  IF response.data.kind = "object" THEN response.data.message ELSE {}

\* ResponseRejected without the fallback to the transport's message
ResponseRejectedServerMessageOnly(error) ==
    [success |-> FALSE,
     message |-> ServerMessage(error),
     status  |-> {r.status : r \in error.response},
     data    |-> {r.data : r \in error.response}]

\* error handler, the object it rejects with
ResponseRejected(error) ==
    [success |-> FALSE,
     message |-> Or(ServerMessage(error), {error.message}),
     status  |-> {r.status : r \in error.response},
     data    |-> {r.data : r \in error.response}]

----------------------------------------------------------------------------
(* The cache, api.js:80-102 *)

\* JSON.stringify of the entries of an object from entry i on
RECURSIVE Entries(_, _)
Entries(params, i) ==
    IF i > Len(params) THEN << >>
    ELSE (IF i > 1 THEN <<",">> ELSE << >>)
         \o <<params[i][1], ":", params[i][2]>>
         \o Entries(params, i + 1)

\* JSON.stringify(params): the entries in insertion order
JSONstringify(params) == <<"{">> \o Entries(params, 1) \o <<"}">>

\* params is optional: {} when the function passes none
getCacheKey(url, params) ==
    LET paramString == IF params # {}
                       THEN JSONstringify(CHOOSE p \in params : TRUE)
                       ELSE << >>
    IN  <<url, ":">> \o paramString

MapDelete(m, k) == [x \in DOMAIN m \ {k} |-> m[x]]

MapSet(m, k, v) == [x \in DOMAIN m \cup {k} |-> IF x = k THEN v ELSE m[x]]

\* getFromCache that hands an entry out once: a live entry is returned and
\* deleted
getFromCacheOnce(m, key, t) ==
    IF key \in DOMAIN m /\ t - m[key].timestamp < CACHE_DURATION
    THEN [ret |-> m[key].data, cache |-> MapDelete(m, key)]
    ELSE [ret |-> Null, cache |-> MapDelete(m, key)]

\* getFromCache that restarts the lifetime of the entry it returns
getFromCacheTouching(m, key, t) ==
    IF key \in DOMAIN m /\ t - m[key].timestamp < CACHE_DURATION
    THEN [ret |-> m[key].data, cache |-> [m EXCEPT ![key].timestamp = t]]
    ELSE [ret |-> Null, cache |-> MapDelete(m, key)]

\* Fresh with an entry of age CACHE_DURATION still served
FreshInclusive(entry, t) == t - entry.timestamp <= CACHE_DURATION

\* A cached entry may be served while its age is below CACHE_DURATION
Fresh(entry, t) == t - entry.timestamp < CACHE_DURATION

\* getFromCache(key) at time t: the value returned and the Map afterwards
getFromCache(m, key, t) ==
    IF key \in DOMAIN m /\ Fresh(m[key], t)
    THEN [ret |-> m[key].data, cache |-> m]
    ELSE [ret |-> Null, cache |-> MapDelete(m, key)]

\* setToCache that stores truthy payloads only
setToCacheTruthyOnly(m, key, data, t) ==
    IF Truthy(data) THEN MapSet(m, key, [data |-> data, timestamp |-> t]) ELSE m

\* setToCache into a Map that keeps the newest entry only
setToCacheSingle(m, key, data, t) == MapSet(<< >>, key, [data |-> data, timestamp |-> t])

\* setToCache(key, data) at time t: the Map afterwards
setToCache(m, key, data, t) == MapSet(m, key, [data |-> data, timestamp |-> t])

----------------------------------------------------------------------------
(* State *)

\* The record of a step in which nothing was handed to a caller
Idle ==
    [op |-> "init", id |-> 0, fn |-> "", key |-> {}, value |-> {}, error |-> {},
     diag |-> {}, cause |-> "none", status |-> {}, body |-> {}, prior |-> {},
     found |-> {}, token |-> {}, config |-> {}, issuedAt |-> {}, replaced |-> {}]

\* No batch has been asked for
BatchIdle ==
    /\ requests = << >>
    /\ results = << >>
    /\ batch = [state |-> "idle", value |-> << >>]

\* EventTimeline is not mounted
TimelineIdle == timeline = [events |-> << >>, currentPage |-> 0]

\* The filters a Dashboard starts with
DefaultRange == [start |-> "2000-01-01", end |-> "2022-12-31"]
AllCategories == "All"

\* components/Dashboard as useState makes it
Unmounted ==
    [priceData |-> << >>, events |-> << >>, volatilityData |-> << >>,
     changePoints |-> << >>, dateRange |-> DefaultRange,
     eventCategory |-> AllCategories,
     isLoading |-> [prices |-> TRUE, events |-> TRUE, volatility |-> TRUE,
                    changePoints |-> TRUE]]

\* components/Dashboard is not mounted
LoaderIdle ==
    /\ dashboard = Unmounted
    /\ loads = {}
    /\ settled = {}

\* App as useState makes it; null is the empty optional
AppUnmounted ==
    [apiStatus |-> "checking", priceData |-> << >>, events |-> << >>,
     metrics |-> {}, loading |-> TRUE]

\* No fetchData run has ended
NoRun ==
    [id |-> 0, apiStatus |-> "checking", loading |-> TRUE, fallback |-> FALSE,
     metrics |-> {}, events |-> << >>]

\* App is not mounted
AppIdle ==
    /\ app = AppUnmounted
    /\ runs = {}
    /\ runCount = 0
    /\ ended = NoRun

\* No caller outside the layer has done anything yet
UiIdle == BatchIdle /\ TimelineIdle /\ LoaderIdle /\ AppIdle

Init ==
    /\ UiIdle
    /\ cache = << >>
    /\ inflight = {}
    /\ last = Idle
    /\ now = 0
    /\ calls = 0
    /\ ticks = 0
    /\ okLog = {}
    /\ mustMiss = {}
    /\ workload \in Workloads

\* The layer when none of its endpoint functions is in use
ApiIdle ==
    /\ cache = << >>
    /\ inflight = {}
    /\ last = Idle
    /\ now = 0
    /\ calls = 0
    /\ ticks = 0
    /\ okLog = {}
    /\ mustMiss = {}
    /\ workload = {}

\* The identity of a new call: the lowest number no suspended call bears
NewId == LET used == {c.id : c \in inflight}
         IN  CHOOSE i \in 1..(Cardinality(used) + 1) :
                 i \notin used /\ \A j \in 1..(i - 1) : j \in used

\* The request a call makes: the function and its parameters, in any order
Request(fn, url, params) ==
    [fn |-> fn, url |-> url, pairs |-> UNION {Pairs(p) : p \in params}]

\* The payload of the latest successful completion of the same request, when
\* it completed less than CACHE_DURATION ago with no clearCache since
Prior(req) ==
    {r.payload : r \in {x \in okLog : x.req = req /\ now - x.at < CACHE_DURATION}}

----------------------------------------------------------------------------
(* The endpoint functions up to their `await api.get(...)`, api.js:105-198 *)

\* A function with caching: getCacheKey, getFromCache, `if (cached) return
\* cached`, otherwise api.get is called, the request interceptor prepares the
\* request with the token localStorage holds, and the function is suspended
CachedGet(fn, url, params) ==
    LET cacheKey == getCacheKey(url, params)
        got      == getFromCache(cache, cacheKey, now)
        cached   == got.ret
        req      == Request(fn, url, params)
        step     == [Idle EXCEPT !.id = NewId, !.fn = fn, !.key = {cacheKey},
                                 !.prior = Prior(req),
                                 !.found = IF cacheKey \in DOMAIN cache
                                           THEN {now - cache[cacheKey].timestamp}
                                           ELSE {}]
    IN  /\ fn \in workload
        /\ calls < MaxCalls
        /\ calls' = calls + 1
        /\ cache' = got.cache
        /\ mustMiss' = mustMiss \ {cacheKey}
        /\ IF Truthy(cached)
           THEN /\ last' = [step EXCEPT !.op = "hit", !.value = {cached}]
                /\ inflight' = inflight
           ELSE /\ \E token \in Tokens :
                      last' = [step EXCEPT
                                  !.op = "sent", !.token = token,
                                  !.config = {RequestFulfilled(Config(url, FALSE), token, now)}]
                /\ inflight' = inflight \cup
                      {[id |-> NewId, fn |-> fn, url |-> url, key |-> {cacheKey},
                        req |-> req, blob |-> FALSE, issuedAt |-> now]}
        /\ UNCHANGED <<now, ticks, okLog, workload, uiVars>>

\* A function without caching: api.get is called, the request interceptor
\* prepares the request, and the function is suspended
PlainGet(fn, url, blob) ==
    LET req == Request(fn, url, {})
    IN  /\ fn \in workload
        /\ calls < MaxCalls
        /\ calls' = calls + 1
        /\ \E token \in Tokens :
              last' = [Idle EXCEPT
                          !.op = "sent", !.id = NewId, !.fn = fn,
                          !.prior = Prior(req), !.token = token,
                          !.config = {RequestFulfilled(Config(url, blob), token, now)}]
        /\ inflight' = inflight \cup
              {[id |-> NewId, fn |-> fn, url |-> url, key |-> {},
                req |-> req, blob |-> blob,
                issuedAt |-> now]}
        /\ UNCHANGED <<cache, now, ticks, okLog, mustMiss, workload, uiVars>>

healthCheck == CachedGet("healthCheck", <<"/health">>, {})

fetchPrices == \E params \in ParamObjs : CachedGet("fetchPrices", <<"/prices">>, {params})

fetchEvents == \E params \in ParamObjs : CachedGet("fetchEvents", <<"/events">>, {params})

fetchChangePoints == CachedGet("fetchChangePoints", <<"/change-points">>, {})

fetchMetrics == CachedGet("fetchMetrics", <<"/metrics">>, {})

fetchSummaryMetrics == CachedGet("fetchSummaryMetrics", <<"/metrics">>, {})

\* encodeURIComponent of the event names of the model
encodeURIComponent(eventName) ==
    CASE eventName = "Gulf War" -> "Gulf%20War"
      [] OTHER                  -> eventName

EventNames == {"Gulf War"}

fetchEventImpact ==
    \E eventName \in EventNames :
        PlainGet("fetchEventImpact",
                 <<"/analysis/event-impact/", encodeURIComponent(eventName)>>, FALSE)

fetchSeasonality == CachedGet("fetchSeasonality", <<"/analysis/seasonality">>, {})

\* fetchDashboardConfig written like the caching functions
fetchDashboardConfigCached == CachedGet("fetchDashboardConfig", <<"/config">>, {})

fetchDashboardConfig == PlainGet("fetchDashboardConfig", <<"/config">>, FALSE)

\* The format the callers of an export ask for: its default, 'csv' for prices
\* and 'json' for events
Formats(default) == {default}

exportPrices ==
    \E format \in Formats("csv") :
        PlainGet("exportPrices", <<"/export/prices?format=", format>>, TRUE)

\* exportEvents written like the caching functions
exportEventsCached ==
    \E format \in Formats("json") :
        CachedGet("exportEvents", <<"/export/events?format=", format>>, {})

exportEvents ==
    \E format \in Formats("json") :
        PlainGet("exportEvents", <<"/export/events?format=", format>>, TRUE)

\* clearCache, api.js:201-203
clearCache ==
    /\ cache' = << >>
    /\ mustMiss' = mustMiss \cup DOMAIN cache
    /\ okLog' = {}
    /\ last' = [Idle EXCEPT !.op = "clearCache"]
    /\ UNCHANGED <<inflight, now, calls, ticks, workload, uiVars>>

----------------------------------------------------------------------------
(* The endpoint functions after their `await api.get(...)` *)

\* Fulfil with an entry already under the key left as it is
FulfilKeepingFirst(c, response) ==
    LET value == ResponseFulfilled(response)
    IN  /\ inflight' = inflight \ {c}
        /\ cache' = IF c.key # {} /\ c.key \cap DOMAIN cache = {}
                    THEN setToCache(cache, CHOOSE k \in c.key : TRUE, value, now)
                    ELSE cache
        /\ okLog' = {r \in okLog : r.req # c.req}
                        \cup {[req |-> c.req, payload |-> value, at |-> now]}
        /\ last' = [Idle EXCEPT !.op = "resolved", !.id = c.id, !.fn = c.fn,
                                !.key = c.key, !.value = {value}, !.cause = "2xx",
                                !.status = {response.status},
                                !.body = {response.data},
                                !.issuedAt = {c.issuedAt},
                                !.replaced = {cache[k] : k \in c.key \cap DOMAIN cache}]
        /\ UNCHANGED <<now, calls, ticks, mustMiss, workload, uiVars>>

\* Fulfil with the entry stamped with the time the request was issued
FulfilStampedAtIssue(c, response) ==
    LET value == ResponseFulfilled(response)
    IN  /\ inflight' = inflight \ {c}
        /\ cache' = IF c.key # {}
                    THEN setToCache(cache, CHOOSE k \in c.key : TRUE, value, c.issuedAt)
                    ELSE cache
        /\ okLog' = {r \in okLog : r.req # c.req}
                        \cup {[req |-> c.req, payload |-> value, at |-> now]}
        /\ last' = [Idle EXCEPT !.op = "resolved", !.id = c.id, !.fn = c.fn,
                                !.key = c.key, !.value = {value}, !.cause = "2xx",
                                !.status = {response.status},
                                !.body = {response.data},
                                !.issuedAt = {c.issuedAt},
                                !.replaced = {cache[k] : k \in c.key \cap DOMAIN cache}]
        /\ UNCHANGED <<now, calls, ticks, mustMiss, workload, uiVars>>

\* Fulfil with nothing stored under a key cleared while the request was in
\* flight
FulfilUnlessCleared(c, response) ==
    LET value == ResponseFulfilled(response)
    IN  /\ inflight' = inflight \ {c}
        /\ cache' = IF c.key # {} /\ c.key \cap mustMiss = {}
                    THEN setToCache(cache, CHOOSE k \in c.key : TRUE, value, now)
                    ELSE cache
        /\ okLog' = {r \in okLog : r.req # c.req}
                        \cup {[req |-> c.req, payload |-> value, at |-> now]}
        /\ last' = [Idle EXCEPT !.op = "resolved", !.id = c.id, !.fn = c.fn,
                                !.key = c.key, !.value = {value}, !.cause = "2xx",
                                !.status = {response.status},
                                !.body = {response.data},
                                !.issuedAt = {c.issuedAt},
                                !.replaced = {cache[k] : k \in c.key \cap DOMAIN cache}]
        /\ UNCHANGED <<now, calls, ticks, mustMiss, workload, uiVars>>

\* The promise of api.get is fulfilled with `response`: the response interceptor
\* unwraps it, a caching function stores it, and the caller gets it.  The
\* record of the step keeps when the call was issued and the entry it replaced
Fulfil(c, response) ==
    LET value == ResponseFulfilled(response)
    IN  /\ inflight' = inflight \ {c}
        /\ cache' = IF c.key # {}
                    THEN setToCache(cache, CHOOSE k \in c.key : TRUE, value, now)
                    ELSE cache
        /\ okLog' = {r \in okLog : r.req # c.req}
                        \cup {[req |-> c.req, payload |-> value, at |-> now]}
        /\ last' = [Idle EXCEPT !.op = "resolved", !.id = c.id, !.fn = c.fn,
                                !.key = c.key, !.value = {value}, !.cause = "2xx",
                                !.status = {response.status},
                                !.body = {response.data},
                                !.issuedAt = {c.issuedAt},
                                !.replaced = {cache[k] : k \in c.key \cap DOMAIN cache}]
        /\ UNCHANGED <<now, calls, ticks, mustMiss, workload, uiVars>>

\* Reject with the request issued again and the caller left waiting
RejectRetrying(c, error, cause, answer) ==
    /\ inflight' = (inflight \ {c}) \cup {[c EXCEPT !.issuedAt = now]}
    /\ last' = [Idle EXCEPT !.op = "retried", !.id = c.id, !.fn = c.fn,
                            !.key = c.key, !.diag = Diagnostic(error), !.cause = cause,
                            !.status = {r.status : r \in answer},
                            !.body = {r.data : r \in answer}]
    /\ UNCHANGED <<cache, now, calls, ticks, okLog, mustMiss, workload, uiVars>>

\* Reject with the failed answer stored under the key of the call
RejectStoring(c, error, cause, answer) ==
    /\ inflight' = inflight \ {c}
    /\ cache' = IF c.key # {}
                THEN setToCache(cache, CHOOSE k \in c.key : TRUE, Null, now)
                ELSE cache
    /\ last' = [Idle EXCEPT !.op = "rejected", !.id = c.id, !.fn = c.fn,
                            !.key = c.key, !.error = {ResponseRejected(error)},
                            !.diag = Diagnostic(error), !.cause = cause,
                            !.status = {r.status : r \in answer},
                            !.body = {r.data : r \in answer}]
    /\ UNCHANGED <<now, calls, ticks, okLog, mustMiss, workload, uiVars>>

\* The promise of api.get is rejected with `error`: the response interceptor
\* logs it and rejects with the structured error, which the function rethrows.
\* `cause` and `answer` record what the transport did (the server's answer, if
\* any), for the properties below
Reject(c, error, cause, answer) ==
    /\ inflight' = inflight \ {c}
    /\ last' = [Idle EXCEPT !.op = "rejected", !.id = c.id, !.fn = c.fn,
                            !.key = c.key, !.error = {ResponseRejected(error)},
                            !.diag = Diagnostic(error), !.cause = cause,
                            !.status = {r.status : r \in answer},
                            !.body = {r.data : r \in answer}]
    /\ UNCHANGED <<cache, now, calls, ticks, okLog, mustMiss, workload, uiVars>>

\* The bodies a server can answer a call with; with responseType 'blob' the
\* body reaches the interceptor as a Blob
Answers(c) == IF c.blob THEN {Blob} ELSE OkBodies

\* The error responses a server can answer a call with
ErrAnswers(c) ==
    IF c.blob
    THEN {[status |-> s, data |-> Blob] : s \in ErrStatuses}
    ELSE ErrResponses

\* The server answers with a status in 200-299
Respond2xx ==
    \E c \in inflight : \E body \in Answers(c) :
        Fulfil(c, [status |-> 200, data |-> body])

\* The server answers with a status outside 200-299
RespondStatus ==
    \E c \in inflight : \E r \in ErrAnswers(c) :
        Reject(c, StatusError(r.status, r.data), "status", {r})

\* Timeout with the timer firing only once the deadline is behind
TimeoutPastDeadline ==
    \E c \in inflight :
        /\ now - c.issuedAt > timeout
        /\ Reject(c, TimeoutError, "timeout", {})

\* The timer of axios.create({timeout}) fires: no response within `timeout`
\* ms.  axios aborts the request and rejects; the server may still answer
\* (LateResponse)
Timeout ==
    \E c \in inflight :
        /\ now - c.issuedAt >= timeout
        /\ Reject(c, TimeoutError, "timeout", {})

\* LateResponse with the answer run through the call's continuation
LateResponseDelivered ==
    \E body \in OkBodies :
        /\ last.op = "rejected" /\ last.cause = "timeout"
        /\ cache' = IF last.key # {}
                    THEN setToCache(cache, CHOOSE k \in last.key : TRUE, body, now)
                    ELSE cache
        /\ last' = [Idle EXCEPT !.op = "resolved", !.id = last.id, !.fn = last.fn,
                                !.key = last.key, !.value = {body}, !.cause = "late"]
        /\ UNCHANGED <<inflight, now, calls, ticks, okLog, mustMiss, workload, uiVars>>

\* The server answers the request whose timer has just fired: axios has
\* aborted it, the answer reaches no handler and the promise of api.get stays
\* rejected
LateResponse ==
    /\ last.op = "rejected" /\ last.cause = "timeout"
    /\ last' = [Idle EXCEPT !.op = "discarded", !.id = last.id, !.fn = last.fn,
                            !.key = last.key, !.cause = "late"]
    /\ UNCHANGED <<cache, inflight, now, calls, ticks, okLog, mustMiss, workload, uiVars>>

\* The request does not reach the server
NetworkFailure == \E c \in inflight : Reject(c, NetworkError, "network", {})

\* The request fails in another way
OtherFailure == \E c \in inflight : Reject(c, OtherError, "other", {})

\* The steps by which Date.now() advances
Steps == {timeout, CACHE_DURATION}

\* Time passes; it cannot pass the deadline of a pending request, whose timer
\* fires at the deadline
Tick ==
    \E dt \in Steps :
        /\ ticks < MaxTicks
        /\ \A c \in inflight : now + dt <= c.issuedAt + timeout
        /\ now' = now + dt
        /\ ticks' = ticks + 1
        /\ last' = [Idle EXCEPT !.op = "tick"]
        /\ UNCHANGED <<cache, inflight, calls, okLog, mustMiss, workload, uiVars>>

Next ==
    \/ healthCheck
    \/ fetchPrices
    \/ fetchEvents
    \/ fetchChangePoints
    \/ fetchMetrics
    \/ fetchSummaryMetrics
    \/ fetchEventImpact
    \/ fetchSeasonality
    \/ fetchDashboardConfig
    \/ exportPrices
    \/ exportEvents
    \/ clearCache
    \/ Respond2xx
    \/ RespondStatus
    \/ Timeout
    \/ LateResponse
    \/ NetworkFailure
    \/ OtherFailure
    \/ Tick

Spec == Init /\ [][Next]_vars

----------------------------------------------------------------------------
(* The layer with time that does not stop *)

\* The earliest deadline of the pending requests
Deadline ==
    CHOOSE t \in {c.issuedAt + timeout : c \in inflight} :
        \A c \in inflight : t <= c.issuedAt + timeout

\* While a request is pending, time goes on to its deadline
Advance ==
    /\ inflight # {}
    /\ now < Deadline
    /\ now' = Deadline
    /\ last' = [Idle EXCEPT !.op = "tick"]
    /\ UNCHANGED <<cache, inflight, calls, ticks, okLog, mustMiss, workload, uiVars>>

\* The callers of these runs: a caching function and one without caching, or
\* two caching functions that share a key
LiveWorkloads ==
    { {"healthCheck", "fetchDashboardConfig"},
      {"fetchMetrics", "fetchSummaryMetrics"} }

InitLive == Init /\ workload \in LiveWorkloads

NextLive ==
    \/ healthCheck
    \/ fetchMetrics
    \/ fetchSummaryMetrics
    \/ fetchDashboardConfig
    \/ clearCache
    \/ Respond2xx
    \/ RespondStatus
    \/ Timeout
    \/ LateResponse
    \/ NetworkFailure
    \/ OtherFailure
    \/ Advance

\* Time passes and due timers fire; of the network and the callers nothing is
\* assumed
LiveSpec == InitLive /\ [][NextLive]_vars /\ WF_vars(Advance) /\ WF_vars(Timeout)

----------------------------------------------------------------------------
(* batchRequests *)

MaxBatch == 2

\* What a request of a batch may fulfil with, and what it may reject with
BatchValues == {Obj(TRUE, 1, {}), Null}
BatchReasons == {ResponseRejected(TimeoutError), ResponseRejected(StatusError(404, Null))}

PendingPromise == [state |-> "pending", result |-> {}]
Fulfilled(v) == [state |-> "fulfilled", result |-> {v}]
Rejected(r) == [state |-> "rejected", result |-> {r}]
\* A place of the array that holds a plain value, not a promise
Plain(v) == [state |-> "value", result |-> {v}]

Settlements == {Fulfilled(v) : v \in BatchValues} \cup {Rejected(r) : r \in BatchReasons}

\* What the caller may put in a place: a promise in any state, or a value
Elements == {PendingPromise} \cup Settlements \cup {Plain(v) : v \in BatchValues}

RequestLists == UNION {[1..n -> Elements] : n \in 0..MaxBatch}

\* The value an optional holds
The(o) == CHOOSE v \in o : TRUE

\* The result object Promise.allSettled makes of a settled place
SettledResult(p) ==
    IF p.state = "rejected"
    THEN [status |-> "rejected", value |-> {}, reason |-> p.result]
    ELSE [status |-> "fulfilled", value |-> p.result, reason |-> {}]

\* The callback of results.map: one entry per result, at the result's index
Entry(reqs, result, index) ==
    [request |-> reqs[index],
     status  |-> result.status,
     data    |-> IF result.status = "fulfilled" THEN result.value ELSE result.reason,
     error   |-> IF result.status = "rejected" THEN result.reason ELSE {}]

\* batchRequests is called: Promise.allSettled subscribes to every place
batchRequests ==
    /\ batch.state = "idle"
    /\ \E reqs \in RequestLists :
        /\ requests' = reqs
        /\ results' = [i \in 1..Len(reqs) |-> {}]
    /\ batch' = [state |-> "pending", value |-> << >>]
    /\ UNCHANGED <<apiVars, timeline, loaderVars, appVars>>

\* A pending request of the batch fulfils or rejects
Settle ==
    /\ \E i \in 1..Len(requests) : \E p \in Settlements :
        /\ requests[i].state = "pending"
        /\ requests' = [requests EXCEPT ![i] = p]
    /\ UNCHANGED <<results, batch, apiVars, timeline, loaderVars, appVars>>

\* As ReactionJob, but the first rejection rejects the whole batch, as
\* Promise.all does
ReactionJobAll ==
    /\ batch.state = "pending"
    /\ \E i \in 1..Len(requests) :
        /\ requests[i].state # "pending"
        /\ results[i] = {}
        /\ results' = [results EXCEPT ![i] = {SettledResult(requests[i])}]
        /\ batch' = IF requests[i].state = "rejected"
                    THEN [state |-> "rejected", value |-> << >>]
                    ELSE batch
    /\ UNCHANGED <<requests, apiVars, timeline, loaderVars, appVars>>

\* Promise.allSettled's reaction to the settlement of one place: it records
\* the outcome at the place's index
ReactionJob ==
    /\ batch.state = "pending"
    /\ \E i \in 1..Len(requests) :
        /\ requests[i].state # "pending"
        /\ results[i] = {}
        /\ results' = [results EXCEPT ![i] = {SettledResult(requests[i])}]
    /\ UNCHANGED <<requests, batch, apiVars, timeline, loaderVars, appVars>>

\* Every place is recorded: the await ends and batchRequests returns the map
BatchReturn ==
    /\ batch.state = "pending"
    /\ \A i \in 1..Len(requests) : results[i] # {}
    /\ batch' = [state |-> "fulfilled",
                 value |-> [i \in 1..Len(requests) |->
                               Entry(requests, The(results[i]), i)]]
    /\ UNCHANGED <<requests, results, apiVars, timeline, loaderVars, appVars>>

InitBatch == ApiIdle /\ BatchIdle /\ TimelineIdle /\ LoaderIdle /\ AppIdle

NextBatch ==
    \/ batchRequests
    \/ Settle
    \/ ReactionJob
    \/ BatchReturn

\* The job queue runs every job that is put on it
BatchSpec ==
    InitBatch /\ [][NextBatch]_vars /\ WF_vars(ReactionJob) /\ WF_vars(BatchReturn)

----------------------------------------------------------------------------
(* components/EventTimeline.js *)

MaxEvents == 6

eventsPerPage == 5

\* An event is known here by its date
Dates == {1, 2}

\* The lists the parent may pass as `events`, the empty one included
EventLists == UNION {[1..n -> Dates] : n \in 0..MaxEvents}

Max(a, b) == IF a >= b THEN a ELSE b
Min(a, b) == IF a <= b THEN a ELSE b

\* Math.ceil(n / d) for n >= 0, d > 0
Ceil(n, d) == (n + d - 1) \div d

\* sortedEvents is a permutation of events: it has the length of events
totalPages == Ceil(Len(timeline.events), eventsPerPage)

\* The events shown: sortedEvents.slice(currentPage * 5, (currentPage + 1) * 5),
\* as index range; a negative index counts from the end of the list
Slice(len, start, end) ==
    LET from == IF start < 0 THEN Max(len + start, 0) ELSE Min(start, len)
        to   == IF end < 0 THEN Max(len + end, 0) ELSE Min(end, len)
    IN  from + 1 .. to

currentEvents ==
    Slice(Len(timeline.events), timeline.currentPage * eventsPerPage,
          (timeline.currentPage + 1) * eventsPerPage)

\* A click on Previous; the button is disabled on page 0
handlePrevious ==
    /\ timeline.currentPage # 0
    /\ timeline' = [timeline EXCEPT !.currentPage = Max(@ - 1, 0)]
    /\ UNCHANGED <<apiVars, batchVars, loaderVars, appVars>>

\* A click on Next; the button is disabled when currentPage = totalPages - 1
handleNext ==
    /\ timeline.currentPage # totalPages - 1
    /\ timeline' = [timeline EXCEPT !.currentPage = Min(@ + 1, totalPages - 1)]
    /\ UNCHANGED <<apiVars, batchVars, loaderVars, appVars>>

\* The parent renders the component with another list; the state is kept
Rerender ==
    /\ \E list \in EventLists :
        /\ list # timeline.events
        /\ timeline' = [timeline EXCEPT !.events = list]
    /\ UNCHANGED <<apiVars, batchVars, loaderVars, appVars>>

\* The component is mounted with any list: useState(0)
InitTimeline ==
    /\ ApiIdle
    /\ BatchIdle
    /\ LoaderIdle
    /\ AppIdle
    /\ timeline \in [events : EventLists, currentPage : {0}]

NextTimeline ==
    \/ handlePrevious
    \/ handleNext
    \/ Rerender

TimelineSpec == InitTimeline /\ [][NextTimeline]_vars

----------------------------------------------------------------------------
(* components/Dashboard.js: loadData *)

MaxLoads == 2

\* The date ranges and the categories the user selects
DateRanges == {DefaultRange, [start |-> "2010-01-01", end |-> "2022-12-31"]}
Categories == {AllCategories, "Geopolitical"}

\* What the helpers of utils/api answer with: the `data` of the response
PricesFor(range) == <<"prices", range>>
EventsFor(category) == <<"events", category>>
VolatilityMetrics == <<"volatility">>
ChangePoints == <<"change points">>

\* The awaits of loadData, in order
Stages == <<"prices", "events", "volatility", "changePoints">>
StageAfter(pc) == CHOOSE n \in {Stages[i] : i \in 1..4} :
                      \E i \in 1..3 : Stages[i] = pc /\ Stages[i + 1] = n

LoadIds == {l.id : l \in loads} \cup {l.id : l \in settled}

\* All four flags false, as the finally block sets them
NotLoading ==
    [prices |-> FALSE, events |-> FALSE, volatility |-> FALSE, changePoints |-> FALSE]

\* The overlay's condition: Object.values(isLoading).some(loading => loading)
Overlay == \E f \in DOMAIN dashboard.isLoading : dashboard.isLoading[f]

\* loadData of the render that shows `state` is invoked: it raises the prices
\* flag and suspends at fetchHistoricalPrices(dateRange)
loadData(state) ==
    /\ Cardinality(LoadIds) < MaxLoads
    /\ dashboard' = [state EXCEPT !.isLoading.prices = TRUE]
    /\ loads' = loads \cup {[id |-> Cardinality(LoadIds) + 1, pc |-> "prices",
                             dateRange |-> state.dateRange,
                             eventCategory |-> state.eventCategory]}
    /\ UNCHANGED <<settled, apiVars, batchVars, timeline, appVars>>

\* The user picks another date range: the effect on [dateRange, eventCategory]
\* runs loadData of the new render
handleDateRangeChange ==
    \E newRange \in DateRanges \ {dashboard.dateRange} :
        loadData([dashboard EXCEPT !.dateRange = newRange])

\* The user picks another category
handleCategoryChange ==
    \E category \in Categories \ {dashboard.eventCategory} :
        loadData([dashboard EXCEPT !.eventCategory = category])

\* A click on Refresh Data
Refresh == loadData(dashboard)

\* What the awaited helper of stage pc resolved with, as set and shown
Received(l) ==
    CASE l.pc = "prices"       -> [dashboard EXCEPT !.priceData = PricesFor(l.dateRange)]
      [] l.pc = "events"       -> [dashboard EXCEPT !.events = EventsFor(l.eventCategory)]
      [] l.pc = "volatility"   -> [dashboard EXCEPT !.volatilityData = VolatilityMetrics]
      [] l.pc = "changePoints" -> [dashboard EXCEPT !.changePoints = ChangePoints]

\* The await of an invocation resolves: the data is set, then the flag of the
\* next stage is raised and its helper awaited; after the last stage the
\* finally block lowers all four flags
FetchResolves ==
    \E l \in loads :
        /\ IF l.pc = "changePoints"
           THEN /\ dashboard' = [Received(l) EXCEPT !.isLoading = NotLoading]
                /\ loads' = loads \ {l}
                /\ settled' = settled \cup {[id |-> l.id, ok |-> TRUE]}
           ELSE /\ dashboard' = [Received(l) EXCEPT !.isLoading[StageAfter(l.pc)] = TRUE]
                /\ loads' = (loads \ {l}) \cup {[l EXCEPT !.pc = StageAfter(l.pc)]}
                /\ UNCHANGED settled
        /\ UNCHANGED <<apiVars, batchVars, timeline, appVars>>

\* The await of an invocation rejects: catch logs, finally lowers all flags
FetchRejects ==
    \E l \in loads :
        /\ dashboard' = [dashboard EXCEPT !.isLoading = NotLoading]
        /\ loads' = loads \ {l}
        /\ settled' = settled \cup {[id |-> l.id, ok |-> FALSE]}
        /\ UNCHANGED <<apiVars, batchVars, timeline, appVars>>

\* The component is mounted and the effect has invoked loadData once
InitLoader ==
    /\ ApiIdle
    /\ BatchIdle
    /\ TimelineIdle
    /\ AppIdle
    /\ dashboard = Unmounted
    /\ loads = {[id |-> 1, pc |-> "prices", dateRange |-> DefaultRange,
                 eventCategory |-> AllCategories]}
    /\ settled = {}

NextLoader ==
    \/ handleDateRangeChange
    \/ handleCategoryChange
    \/ Refresh
    \/ FetchResolves
    \/ FetchRejects

LoaderSpec == InitLoader /\ [][NextLoader]_vars

----------------------------------------------------------------------------
(* App: fetchData and loadFallbackData *)

MaxRuns == 3

\* How the health check of a run comes out: the body says 'healthy', the body
\* says anything else, or fetch / json() / the read of .status throws
HealthOutcomes == {"healthy", "unhealthy", "exception"}

\* The `success` fields of the three bodies, when all three were fetched and
\* parsed
Bodies == [prices : BOOLEAN, events : BOOLEAN, metrics : BOOLEAN]

\* The `data` of the three bodies; the metrics are some that differ from the
\* fallback's
ApiPrices == <<"prices">>
ApiEvents == <<"events">>
ApiMetrics ==
    [start |-> "1987-05-20", end |-> "2022-11-14", total_days |-> 9011,
     current |-> "93.86", average |-> "48.42", min |-> "9.10", max |-> "143.95"]

\* What loadFallbackData sets
FallbackMetrics ==
    [start |-> "1987-05-20", end |-> "2022-11-14", total_days |-> 9011,
     current |-> "96.42", average |-> "58.73", min |-> "9.10", max |-> "143.95"]
FallbackEvents == <<"Gulf War", "2008 Financial Crisis", "COVID-19 Pandemic">>

loadFallbackData(state) ==
    [state EXCEPT !.metrics = {FallbackMetrics}, !.events = FallbackEvents]

\* The badge of the header
Badge ==
    CASE app.apiStatus = "connected" -> "API Connected"
      [] app.apiStatus = "error"     -> "Using Demo Data"
      [] OTHER                       -> "Connecting..."

\* The finally block: setLoading(false); the run is over
Finally(r, state, fallback) ==
    /\ app' = [state EXCEPT !.loading = FALSE]
    /\ runs' = runs \ {r}
    /\ ended' = [id |-> r.id, apiStatus |-> state.apiStatus, loading |-> FALSE,
                 fallback |-> fallback, metrics |-> state.metrics,
                 events |-> state.events]
    /\ UNCHANGED <<runCount, apiVars, batchVars, timeline, loaderVars>>

\* The catch block
Caught(r) == Finally(r, loadFallbackData([app EXCEPT !.apiStatus = "error"]), TRUE)

\* fetchData is invoked, by the Refresh buttons or by the effect on the
\* filters; the controls are rendered only while loading is false
fetchData ==
    /\ ~app.loading
    /\ runCount < MaxRuns
    /\ app' = [app EXCEPT !.loading = TRUE]
    /\ runs' = runs \cup {[id |-> runCount + 1, pc |-> "health"]}
    /\ runCount' = runCount + 1
    /\ UNCHANGED <<ended, apiVars, batchVars, timeline, loaderVars>>

\* The health check of a run comes out
HealthAnswer ==
    \E r \in runs : \E outcome \in HealthOutcomes :
        /\ r.pc = "health"
        /\ CASE outcome = "healthy" ->
                  /\ app' = [app EXCEPT !.apiStatus = "connected"]
                  /\ runs' = (runs \ {r}) \cup {[r EXCEPT !.pc = "data"]}
                  /\ UNCHANGED <<runCount, ended, apiVars, batchVars, timeline,
                                 loaderVars>>
             [] outcome = "unhealthy" ->
                  Finally(r, [app EXCEPT !.apiStatus = "error"], FALSE)
             [] outcome = "exception" -> Caught(r)

\* The three fetches and their json() all succeed
DataAnswer ==
    \E r \in runs : \E b \in Bodies :
        /\ r.pc = "data"
        /\ Finally(r, [app EXCEPT
                          !.priceData = IF b.prices THEN ApiPrices ELSE @,
                          !.events = IF b.events THEN ApiEvents ELSE @,
                          !.metrics = IF b.metrics THEN {ApiMetrics} ELSE @],
                   FALSE)

\* One of the three fetches or a json() throws
DataFailure ==
    \E r \in runs :
        /\ r.pc = "data"
        /\ Caught(r)

\* App is mounted and the effect has invoked fetchData once
InitApp ==
    /\ ApiIdle
    /\ BatchIdle
    /\ TimelineIdle
    /\ LoaderIdle
    /\ app = AppUnmounted
    /\ runs = {[id |-> 1, pc |-> "health"]}
    /\ runCount = 1
    /\ ended = NoRun

NextApp ==
    \/ fetchData
    \/ HealthAnswer
    \/ DataAnswer
    \/ DataFailure

AppSpec == InitApp /\ [][NextApp]_vars

----------------------------------------------------------------------------
(* Properties of the access layer *)

\* The functions that go through the cache
CachedFns ==
    {"healthCheck", "fetchPrices", "fetchEvents", "fetchChangePoints",
     "fetchMetrics", "fetchSummaryMetrics", "fetchSeasonality"}

\* The step just taken was a call of an endpoint function, up to its await
Called == last.op \in {"hit", "sent"}

\* A get for key k issued now would be served from the cache
Served(k) == Truthy(getFromCache(cache, k, now).ret)

\* The body of a 2xx answer says success: false
SaysFailure(b) == b.kind = "object" /\ ~b.success

\* C1: a call of a caching endpoint function that repeats a successful call
\* (same function, same set of parameters, an object as payload) less than 5
\* minutes after it, with no clearCache in between, returns that call's
\* payload and issues no network request.
C1_RepeatedGetServedFromCache ==
    (Called /\ last.fn \in CachedFns /\ \E b \in last.prior : Truthy(b))
        => (last.op = "hit" /\ last.value = last.prior)

\* C2: after clearCache, a key that was cached before the clear is not served
\* from the cache: the next get for it issues a network request, whatever gets
\* were in flight when clearCache ran.
C2_NextGetAfterClearHitsNetwork == \A k \in mustMiss : ~Served(k)

\* C3: getCacheKey gives the same key to two calls of the same endpoint whose
\* parameter objects hold the same key/value pairs, whatever the order in
\* which the pairs were inserted.
C3_KeyIgnoresParamOrder ==
    \A c \in inflight : \A d \in inflight :
        (c.req = d.req /\ c.key # {}) => c.key = d.key

\* C4: a 2xx answer whose body says success: false rejects the call; the body
\* is not handed to the caller as a result and is not stored in the cache.
C4_SuccessFalseRejects ==
    /\ (last.cause = "2xx" /\ \E b \in last.body : SaysFailure(b))
           => (last.op = "rejected" /\ last.value = {})
    /\ \A k \in DOMAIN cache : ~SaysFailure(cache[k].data)

\* The transport's answer the step record holds, when there is one
Answer == CHOOSE r \in {[status |-> s, data |-> b] : s \in last.status, b \in last.body} : TRUE

\* The error the caller was rejected with
Err == CHOOSE e \in last.error : TRUE

\* C5: a response with a status outside 200-299 rejects the call with
\* {success: false, status, message}: the status is the one the server sent
\* and the message is not empty, the server's message when the body has a
\* non-empty one and the transport's message otherwise.
C5_StatusErrorRejects ==
    last.cause = "status"
        => /\ last.op = "rejected"
           /\ last.value = {}
           /\ Cardinality(last.error) = 1
           /\ Err.success = FALSE
           /\ Err.status = {Answer.status}
           /\ Cardinality(Err.message) = 1
           /\ Err.message # {""}
           /\ Err.message =
                  IF Answer.data.kind = "object" /\ TruthyOpt(Answer.data.message)
                  THEN Answer.data.message
                  ELSE {StatusMessage(Answer.status)}

C5_Witness ==
    /\ last.cause = "status"
    /\ last.status = {404}
    /\ last.body = {Null}
    /\ last.op = "rejected"

\* C6: no call stays suspended longer than the 30 s timeout, and a call whose
\* timer fires is rejected with the timeout's own diagnostic and message, not
\* left without a diagnostic or given that of another category.
C6_TimeoutRejectsAsTimeout ==
    /\ \A c \in inflight : now - c.issuedAt <= timeout
    /\ last.cause = "timeout"
           => /\ last.op = "rejected"
              /\ last.diag = {"Request timeout"}
              /\ Cardinality(last.error) = 1
              /\ Err.success = FALSE
              /\ Err.message = {"timeout of 30000ms exceeded"}
              /\ Err.status = {}
              /\ Err.data = {}

C6_Witness == last.cause = "timeout" /\ last.op = "rejected" /\ now >= timeout

\* The failures of a call: by timeout, without a response, with a status
\* outside 200-299, or with a 2xx body that says success: false
Failed ==
    \/ last.cause \in {"timeout", "network", "other", "status"}
    \/ last.cause = "2xx" /\ \E b \in last.body : SaysFailure(b)

\* C7: every failure of a call, whatever its origin, reaches the caller as a
\* rejection with the one error shape {success: false, message, status?, data?}.
C7_EveryFailureIsNormalized ==
    Failed
        => /\ last.op = "rejected"
           /\ last.value = {}
           /\ Cardinality(last.error) = 1
           /\ Err.success = FALSE
           /\ Cardinality(Err.message) = 1
           /\ Cardinality(Err.status) <= 1
           /\ Cardinality(Err.data) <= 1

\* C8: a call that fails changes no cache entry and hands no payload to its
\* caller; an entry is created or replaced only by the successful completion
\* of a call for its key.
C8_OnlySuccessWritesCache ==
    [][ /\ last'.op = "rejected" => (cache' = cache /\ last'.value = {})
        /\ \A k \in DOMAIN cache' :
               (k \notin DOMAIN cache \/ cache'[k] # cache[k])
                   => /\ last'.op = "resolved"
                      /\ last'.cause = "2xx"
                      /\ last'.key = {k}
                      /\ last'.value = {cache'[k].data} ]_vars

C8_Witness ==
    /\ last.op = "rejected"
    /\ last.key # {}
    /\ last.cause \in {"timeout", "network", "status"}
    /\ cache # << >>

\* C9: an entry is live exactly while its age is below CACHE_DURATION: a call
\* that finds an entry of that age or older does not return it, deletes it
\* and issues a network request; a younger entry is kept, and returned when
\* its payload is an object.
C9_EntryLiveWhileYoungerThanTTL ==
    (Called /\ last.found # {})
        => LET age == CHOOSE a \in last.found : TRUE
               key == CHOOSE k \in last.key : TRUE
           IN  IF age >= CACHE_DURATION
               THEN /\ last.op = "sent"
                    /\ last.value = {}
                    /\ key \notin DOMAIN cache
                    /\ \E c \in inflight : c.id = last.id /\ c.key = {key}
               ELSE /\ key \in DOMAIN cache
                    /\ now - cache[key].timestamp = age
                    /\ Truthy(cache[key].data)
                           => (last.op = "hit" /\ last.value = {cache[key].data})

C9_Witness == last.op = "sent" /\ last.found = {CACHE_DURATION}

ExportFns == {"exportPrices", "exportEvents"}

\* C10: an export call always issues a network request, and neither its call
\* nor its completion inserts, deletes or changes a cache entry.
C10_ExportsBypassCache ==
    [][ last'.fn \in ExportFns
            => /\ cache' = cache
               /\ last'.op \in {"sent", "resolved", "rejected", "discarded"}
               /\ last'.key = {}
               /\ last'.op = "sent"
                      => \E c \in inflight' \ inflight :
                             c.id = last'.id /\ c.fn = last'.fn ]_vars

C10_Witness ==
    /\ last.fn \in ExportFns
    /\ last.op = "resolved"
    /\ cache # << >>

\* The headers of the request the step just issued
SentHeaders == (CHOOSE c \in last.config : TRUE).headers

Category(diag) ==
    CASE diag = {"Unauthorized access"}   -> "Unauthorized"
      [] diag = {"Forbidden access"}      -> "Forbidden"
      [] diag = {"Resource not found"}    -> "NotFound"
      [] diag = {"Internal server error"} -> "ServerError"
      [] diag = {"Service unavailable"}   -> "ServerError"
      [] diag = {"Request timeout"}       -> "Timeout"
      [] diag = {"Network error"}         -> "NetworkUnreachable"
      [] diag = {"API error:"}            -> "Unknown"
      [] diag = {}                        -> "none"

\* The category the taxonomy gives to what the transport did
Taxonomy(cause, status) ==
    CASE cause = "timeout"                       -> "Timeout"
      [] cause = "network"                       -> "NetworkUnreachable"
      [] cause = "status" /\ status = {401}      -> "Unauthorized"
      [] cause = "status" /\ status = {403}      -> "Forbidden"
      [] cause = "status" /\ status = {404}      -> "NotFound"
      [] cause = "status" /\ (\E x \in status : x >= 500 /\ x <= 599)
                                                 -> "ServerError"
      [] OTHER                                   -> "Unknown"

\* C12: every rejected call has one diagnostic logged, that of its category:
\* 401 Unauthorized, 403 Forbidden, 404 NotFound, 500-599 ServerError, timer
\* fired Timeout, no response NetworkUnreachable, anything else Unknown.
C12_FailureClassifiedByTaxonomy ==
    last.op = "rejected"
        => /\ Cardinality(last.diag) = 1
           /\ Category(last.diag) = Taxonomy(last.cause, last.status)

\* C13: calls with the same key in flight together are not shared: a call is
\* answered without a request only from a live cache entry, every other call
\* has a request of its own, and each successful completion stores its
\* payload under the key whatever entry is there, so that after both have
\* completed the entry is that of the later one.
C13_SameKeyNotDeduplicated ==
    /\ last.op = "hit"
           => \E a \in last.found :
                  a < CACHE_DURATION /\ \A c \in inflight : c.id # last.id
    /\ last.op = "sent" => \E c \in inflight : c.id = last.id /\ c.key = last.key
    /\ (last.op = "resolved" /\ last.key # {})
           => \A k \in last.key :
                  /\ k \in DOMAIN cache
                  /\ {cache[k].data} = last.value
                  /\ cache[k].timestamp = now

\* The later of two overlapping calls with one key completes: the entry it
\* replaces was stored, with another payload, after it was issued
C13_Witness ==
    /\ last.op = "resolved"
    /\ \E e \in last.replaced : \E t \in last.issuedAt :
           /\ e.timestamp >= t
           /\ Truthy(e.data)
           /\ {e.data} # last.value
    /\ \A k \in last.key : {cache[k].data} = last.value

\* The step hands an outcome to a caller suspended on a request
Settles == last'.op \in {"resolved", "rejected"}

\* C14: a pending call gets one outcome and is pending no more: an outcome is
\* handed only to a call that is pending, the call leaves the pending calls
\* in that step and never returns to them, and the answer to a request that
\* timed out is discarded: it hands nothing to a caller and leaves the cache
\* as it is.
C14_OneTerminalOutcome ==
    [][ /\ Settles => \E c \in inflight :
                          c.id = last'.id /\ inflight' = inflight \ {c}
        /\ \A c \in inflight \ inflight' : Settles /\ last'.id = c.id
        /\ \A c \in inflight' \ inflight :
               /\ last'.op = "sent"
               /\ last'.id = c.id
               /\ c.id \notin {d.id : d \in inflight}
        /\ last'.cause = "late"
               => /\ last'.op = "discarded"
                  /\ last.cause = "timeout"
                  /\ last'.id = last.id
                  /\ last'.value = {} /\ last'.error = {}
                  /\ cache' = cache
                  /\ inflight' = inflight
                  /\ \A c \in inflight : c.id # last'.id ]_vars

\* The answer to a caching call that timed out has arrived and was discarded
C14_Witness ==
    /\ last.op = "discarded"
    /\ last.key # {}
    /\ \A k \in last.key : k \notin DOMAIN cache

\* The identities calls can bear
Ids == 1..MaxCalls

Pending(i) == \E c \in inflight : c.id = i

\* C15: every pending call eventually is pending no more, whatever the
\* network does: when no answer and no failure comes, the timer of the
\* request fires and rejects the call.
C15_EveryGetSettles == \A i \in Ids : Pending(i) ~> ~Pending(i)

\* A call was left unanswered until its timer fired
C15_Witness ==
    /\ last.op = "rejected"
    /\ last.cause = "timeout"
    /\ \A c \in inflight : c.id # last.id
    /\ ticks = 0

\* C16: a call of an endpoint function issues at most one request and no
\* request is issued otherwise: when a request succeeds or fails, its call
\* gets the outcome in that step and nothing is sent again.
C16_NoRetry ==
    [][ /\ Cardinality(inflight' \ inflight) <= 1
        /\ inflight' \ inflight # {}
               => (calls' = calls + 1 /\ last'.op = "sent")
        /\ calls' <= calls + 1
        /\ last'.cause \in {"2xx", "status", "timeout", "network", "other"}
               => /\ last'.op \in {"resolved", "rejected"}
                  /\ calls' = calls
                  /\ \E c \in inflight : c.id = last'.id /\ inflight' = inflight \ {c} ]_vars

\* The only call made has failed and no request is in flight
C16_Witness ==
    /\ last.op = "rejected"
    /\ calls = 1
    /\ inflight = {}

\* The entries under the keys other than those of the step are as they were
OthersKept ==
    \A k \in (DOMAIN cache \cup DOMAIN cache') \ last'.key :
        k \in DOMAIN cache /\ k \in DOMAIN cache' /\ cache'[k] = cache[k]

\* C17 as stated: the cache is changed only by clearCache, which empties it,
\* and by a call or completion of a caching function, which only puts an
\* entry under its key and removes none.
C17_ChangedOnlyByInsertAndClear ==
    [][ /\ last'.op = "clearCache" => cache' = << >>
        /\ cache' # cache
               => \/ last'.op = "clearCache"
                  \/ /\ last'.fn \in CachedFns
                     /\ OthersKept
                     /\ DOMAIN cache \subseteq DOMAIN cache' ]_vars

\* C17: the cache is changed only by clearCache, which empties it, and by a
\* caching function: its completion puts its payload under its key, and its
\* call deletes the entry under its key when that entry is stale; each change
\* is one step and touches one key or all.
C17_ChangedOnlyByGetAndClear ==
    [][ /\ last'.op = "clearCache" => cache' = << >>
        /\ cache' # cache
               => \/ last'.op = "clearCache"
                  \/ /\ last'.fn \in CachedFns
                     /\ OthersKept
                     /\ \A k \in last'.key :
                            \/ /\ last'.op = "resolved"
                               /\ k \in DOMAIN cache'
                               /\ {cache'[k].data} = last'.value
                            \/ /\ last'.op = "sent"
                               /\ k \in DOMAIN cache
                               /\ k \notin DOMAIN cache'
                               /\ now - cache[k].timestamp >= CACHE_DURATION ]_vars

\* A call of a caching function has deleted the stale entry under its key
C17_Witness ==
    /\ last.op = "sent"
    /\ last.fn \in CachedFns
    /\ \E a \in last.found : a >= CACHE_DURATION
    /\ \A k \in last.key : k \notin DOMAIN cache

\* C18: when the request of a caching function is answered with a 2xx status,
\* the call returns the body of the answer, and the cache then holds under the
\* key of the call an entry with that very value, stamped with the time of the
\* completion and not with the time the request was issued.
C18_SuccessStoresWhatItReturns ==
    (last.op = "resolved" /\ last.fn \in CachedFns)
        => /\ Cardinality(last.key) = 1
           /\ Cardinality(last.value) = 1
           /\ last.value = last.body
           /\ \A k \in last.key : \A v \in last.value :
                  /\ k \in DOMAIN cache
                  /\ cache[k] = [data |-> v, timestamp |-> now]

\* A caching call issued earlier has completed now
C18_Witness ==
    /\ last.op = "resolved"
    /\ last.fn \in CachedFns
    /\ \E t \in last.issuedAt : t < now
    /\ \A k \in last.key : cache[k].timestamp = now /\ {cache[k].data} = last.value

\* The keys that hold an entry before and after the step, and not the same
Rewritten == {k \in DOMAIN cache \cap DOMAIN cache' : cache'[k] # cache[k]}

\* C19 as stated: the payload and timestamp under a key change only by a
\* stale entry giving way to a new one; an entry that is live is never
\* overwritten.
C19_LiveEntryNeverOverwritten ==
    [][ \A k \in Rewritten : ~Fresh(cache[k], now) ]_vars

\* C19: the payload and timestamp of a stored entry never change apart: what
\* is under a key changes only by the entry being deleted or by the
\* successful completion of a call for that key putting a new entry, with its
\* payload and the time of the completion, in its place.
C19_EntryReplacedAsAWhole ==
    [][ \A k \in Rewritten :
            /\ last'.op = "resolved"
            /\ last'.key = {k}
            /\ {cache'[k].data} = last'.value
            /\ cache'[k].timestamp = now'
            /\ last'.replaced = {cache[k]} ]_vars

\* A completion has put a new entry in the place of one that was still live
C19_Witness ==
    /\ last.op = "resolved"
    /\ \E e \in last.replaced :
           /\ Fresh(e, now)
           /\ \A k \in last.key : cache[k] # e

\* The cache after call c of a caching function completes with payload v at
\* time t
Completed(m, c, v, t) == setToCache(m, CHOOSE k \in c.key : TRUE, v, t)

\* The times at which a pending call can complete
CompletionTimes == {now, now + timeout}

\* What the successful completion of this step does to a cache m
ThisCompletion(m) ==
    setToCache(m, CHOOSE k \in last'.key : TRUE, CHOOSE v \in last'.value : TRUE, now)

\* C20: the completion of a call, with success or failure, leaves the entry
\* under every key other than its own as it was, and with a call for another
\* key still pending the cache comes out the same whether that call completes
\* after this one or had completed before it.
C20_DifferentKeysIndependent ==
    [][ /\ Settles => OthersKept
        /\ last'.op = "rejected" => cache' = cache
        /\ (last'.op = "resolved" /\ last'.key # {})
               => \A d \in inflight' :
                      (d.key # {} /\ d.key # last'.key)
                          => \A w \in Answers(d) : \A u \in CompletionTimes :
                                 Completed(cache', d, w, u)
                                     = ThisCompletion(Completed(cache, d, w, u)) ]_vars

\* Of two calls pending together, the second has completed and the entry the
\* first stored under another key is in the cache
C20_Witness ==
    /\ last.op = "resolved"
    /\ last.id = 2
    /\ \A k \in last.key : {cache[k].data} = last.value
    /\ \E k \in DOMAIN cache : {k} # last.key
    /\ last.key # {}

\* C21: clearCache empties the cache, and a call that was pending when
\* clearCache ran still stores its answer when it completes: the key is in
\* the cache again, with an entry whose request was issued before the clear,
\* and a get for the key is served from it when its payload is an object.
C21_InFlightGetRefillsAfterClear ==
    /\ last.op = "clearCache" => cache = << >>
    /\ \A k \in last.key \cap mustMiss :
           last.op = "resolved"
               => /\ k \in DOMAIN cache
                  /\ {cache[k].data} = last.value
                  /\ cache[k].timestamp = now
                  /\ Truthy(cache[k].data) => Served(k)

\* The key was cached when clearCache ran and no call for it was made since:
\* the call that has just completed was pending across the clear
C21_Witness ==
    /\ last.op = "resolved"
    /\ \E k \in last.key \cap mustMiss :
           /\ k \in DOMAIN cache
           /\ Truthy(cache[k].data)
           /\ Served(k)

\* C22: a successful answer with a falsy payload is stored under the key of
\* the call but never served: a call that finds such an entry, however young,
\* leaves it where it is and issues a request of its own.
C22_FalsyPayloadStoredNotServed ==
    /\ (last.op = "resolved" /\ last.value = {Null})
           => \A k \in last.key :
                  /\ k \in DOMAIN cache
                  /\ cache[k].data = Null
                  /\ ~Served(k)
    /\ Called
           => \A k \in last.key : \A a \in last.found :
                  (a < CACHE_DURATION /\ ~Truthy(cache[k].data))
                      => /\ last.op = "sent"
                         /\ last.value = {}
                         /\ now - cache[k].timestamp = a
                         /\ \E c \in inflight : c.id = last.id /\ c.key = {k}

\* A call has found a young entry with the payload null and has issued a
\* request
C22_Witness ==
    /\ last.op = "sent"
    /\ \E k \in last.key : \E a \in last.found :
           /\ a < CACHE_DURATION
           /\ k \in DOMAIN cache
           /\ cache[k].data = Null

PlainFns == {"fetchEventImpact", "fetchDashboardConfig"}

\* C23: a call of fetchEventImpact or fetchDashboardConfig always issues a
\* request, also when the same call has succeeded just before, and neither
\* the call nor its completion looks up, inserts, deletes or changes a cache
\* entry.
C23_PlainFunctionsBypassCache ==
    [][ last'.fn \in PlainFns
            => /\ cache' = cache
               /\ last'.op \in {"sent", "resolved", "rejected", "discarded"}
               /\ last'.key = {}
               /\ last'.found = {}
               /\ last'.op = "sent"
                      => /\ calls' = calls + 1
                         /\ \E c \in inflight' \ inflight :
                                c.id = last'.id /\ c.fn = last'.fn /\ c.key = {} ]_vars

\* The call that succeeded just before is made again and issues a request
C23_Witness ==
    /\ last.fn \in PlainFns
    /\ last.op = "sent"
    /\ last.prior # {}
    /\ \E c \in inflight : c.id = last.id

MetricsFns == {"fetchMetrics", "fetchSummaryMetrics"}

\* The successful completions of the two metrics functions still on record
MetricsLog == {r \in okLog : r.req.fn \in MetricsFns}

\* C24: when one of fetchMetrics and fetchSummaryMetrics has succeeded, less
\* than 5 minutes ago and with no clearCache and no other success of the two
\* since, a call of the other one returns that payload and issues no request.
C24_MetricsShareOneEntry ==
    (Called /\ last.fn \in MetricsFns)
        => \A r \in MetricsLog :
               (MetricsLog = {r} /\ r.req.fn # last.fn /\ now - r.at < CACHE_DURATION)
                   => /\ last.op = "hit"
                      /\ last.value = {r.payload}
                      /\ \A c \in inflight : c.id # last.id

Succeeded(p) == p.state \in {"fulfilled", "value"}

\* What batchRequests has to report about place i
Reported(i) ==
    IF Succeeded(requests[i])
    THEN [request |-> requests[i], status |-> "fulfilled",
          data |-> requests[i].result, error |-> {}]
    ELSE [request |-> requests[i], status |-> "rejected",
          data |-> requests[i].result, error |-> requests[i].result]

BatchCorrect ==
    /\ batch.state # "rejected"
    /\ batch.state = "fulfilled"
           => /\ \A i \in 1..Len(requests) : requests[i].state # "pending"
              /\ Len(batch.value) = Len(requests)
              /\ \A i \in 1..Len(requests) : batch.value[i] = Reported(i)

AllSettled ==
    batch.state # "idle" /\ \A i \in 1..Len(requests) : requests[i].state # "pending"

\* C25: batchRequests never rejects; once every request of the list has
\* settled it resolves, and not before, to a list of the same length and order
\* whose entry i is {status 'fulfilled', data = value, error = null} when
\* request i succeeded and {status 'rejected', data = reason, error = reason}
\* when it failed, whatever the other requests did.
C25_BatchReportsEveryOutcome ==
    /\ []BatchCorrect
    /\ AllSettled ~> batch.state = "fulfilled"

C25_Witness ==
    /\ batch.state = "fulfilled"
    /\ Len(batch.value) = 2
    /\ batch.value[1].status = "rejected"
    /\ batch.value[1].error = {ResponseRejected(TimeoutError)}
    /\ batch.value[2].status = "fulfilled"
    /\ batch.value[2].data = {Null}
    /\ batch.value[2].error = {}

\* C26: in EventTimeline currentPage always designates an existing page:
\* 0 <= currentPage, currentPage <= totalPages - 1 whenever there is an event,
\* and currentPage = 0 when there is none.
C26_CurrentPageDesignatesAPage ==
    /\ 0 <= timeline.currentPage
    /\ Len(timeline.events) > 0 => timeline.currentPage <= totalPages - 1
    /\ Len(timeline.events) = 0 => timeline.currentPage = 0

\* C27: in components/Dashboard the loading overlay is shown as long as a
\* loadData invocation is awaiting a response, and all four isLoading flags
\* are false once every invocation has settled.
C27_OverlayWhileAnyLoadAwaits ==
    /\ loads # {} => Overlay
    /\ loads = {} => dashboard.isLoading = NotLoading

\* C28: once all loadData invocations have settled successfully, priceData and
\* events are those fetched for the dateRange and eventCategory now selected.
C28_LatestSelectionDisplayed ==
    (loads = {} /\ \A l \in settled : l.ok)
        => /\ dashboard.priceData = PricesFor(dashboard.dateRange)
           /\ dashboard.events = EventsFor(dashboard.eventCategory)

\* C29: a fetchData run that ends with apiStatus = 'error' (badge 'Using Demo
\* Data') has loaded the fallback metrics and the fallback events, and after
\* every fetchData run loading is false.
C29_ErrorMeansFallbackLoaded ==
    ended.id # 0
        => /\ ended.loading = FALSE
           /\ ended.apiStatus = "error"
                  => /\ ended.fallback
                     /\ ended.metrics = {FallbackMetrics}
                     /\ ended.events = FallbackEvents

============================================================================
